---------------------------- MODULE Spec2Model ----------------------------
(***************************************************************************)
(* Model of AdvancedTradingBot (attached_assets/trading_bot_1762899519930  *)
(* .py): the Position Manager (execute_trade, manage_open_position,        *)
(* force_close_position, calculate_position_size), the Signal Engine       *)
(* (aggressive_profit_strategy) and the session loop (run).                *)
(*                                                                         *)
(* Numbers.  The program computes with Python floats.  Here every float is *)
(* an exact rational <<n, d>> in lowest terms with d > 0, and + - * / are  *)
(* the exact operations: rounding of IEEE doubles is not modelled.         *)
(* Timestamps (datetime.now, entry_time, hold_duration) and logging are    *)
(* left out: no decision of the program reads them.  Of the files that     *)
(* save_trade_to_file writes, the results file is kept; the row appended   *)
(* to the trades file repeats a record of self.trades.                      *)
(***************************************************************************)
EXTENDS Integers, Sequences, FiniteSets, TLC

VARIABLES
    balance,         \* self.balance
    position,        \* self.position: None or <<dict>>
    trades,          \* self.trades
    total_trades,    \* self.total_trades
    winning_trades,  \* self.winning_trades
    results_file,    \* content of results/trading_results.json: None or <<snapshot>>
    at_save,         \* history: what save_trade_to_file found in memory when last entered
    disk,            \* the persistence collaborator: "ok" or "failing"
    last,            \* history: the last call made on the bot, its arguments and the state before it
    pc,              \* run: where the session loop stands
    best_coins,      \* run: the ranking of the current cycle
    idx,             \* run: index of the next entry of best_coins
    cycles,          \* run: cycles started so far
    cyc,             \* history: what the current cycle fetched and invoked
    arg,             \* input of the pure function under check
    ret              \* its result: <<>> before the call, <<value>> after

acct == <<balance, position, trades, total_trades, winning_trades, results_file, at_save>>
loop == <<pc, best_coins, idx, cycles, cyc>>
pure == <<arg, ret>>
vars == <<balance, position, trades, total_trades, winning_trades, results_file,
          at_save, disk, last,
          pc, best_coins, idx, cycles, cyc, arg, ret>>

---------------------------------------------------------------------------
(* Exact rational arithmetic standing for the program's float arithmetic. *)

Abs(x) == IF x < 0 THEN -x ELSE x

RECURSIVE GCD(_, _)
GCD(a, b) == IF b = 0 THEN a ELSE GCD(b, a % b)

Norm(n, d) ==
    IF n = 0 THEN <<0, 1>>
    ELSE LET g == GCD(Abs(n), Abs(d))
             s == IF d < 0 THEN -1 ELSE 1
         IN  <<s * (n \div g), s * (d \div g)>>

R(n, d) == Norm(n, d)

Zero == <<0, 1>>

RNeg(a) == <<-a[1], a[2]>>

RAdd(a, b) ==
    LET g == GCD(a[2], b[2])
    IN  Norm(a[1] * (b[2] \div g) + b[1] * (a[2] \div g), (a[2] \div g) * b[2])

RSub(a, b) == RAdd(a, RNeg(b))

RMul(a, b) ==
    IF a[1] = 0 \/ b[1] = 0 THEN Zero
    ELSE LET g1 == GCD(Abs(a[1]), b[2])
             g2 == GCD(Abs(b[1]), a[2])
         IN  <<(a[1] \div g1) * (b[1] \div g2), (a[2] \div g2) * (b[2] \div g1)>>

\* b # 0
RDiv(a, b) ==
    RMul(a, IF b[1] < 0 THEN <<-b[2], -b[1]>> ELSE <<b[2], b[1]>>)

RLt(a, b) == RSub(a, b)[1] < 0

RLe(a, b) == RSub(a, b)[1] <= 0

RAbs(a) == <<Abs(a[1]), a[2]>>

RMin(a, b) == IF RLt(b, a) THEN b ELSE a

---------------------------------------------------------------------------
(* Configuration of the bot (the constructor call of __main__) and the     *)
(* literals of the Position Manager.                                       *)

None == <<>>

initial_balance == R(1000, 1)
risk_per_trade == R(25, 1000)
max_drawdown == R(12, 100)

stop_loss_pct == R(15, 1000)
take_profit_base == R(6, 100)
take_profit_strong == R(8, 100)
strong_signal_strength == 10
trail_trigger == R(103, 100)
trail_stop == R(101, 100)
max_exposure == R(15, 100)
exposure_slope == R(8, 100)
potential_mid == R(50, 1)
potential_high == R(70, 1)
risk_boost_high == R(3, 2)
risk_boost_mid == R(6, 5)

---------------------------------------------------------------------------
(* calculate_position_size.  pp is what analyze_coin_potential(symbol)     *)
(* returns at this call: a number in [0, 100].                             *)

\* Mutant of calculate_position_size: the exposure ceiling taken with max
\* instead of min.
calculate_position_size_max_cap(bal, current_price, stop_loss_price, pp) ==
    LET base0 == RMul(bal, risk_per_trade)
        base_risk == IF RLt(potential_high, pp) THEN RMul(base0, risk_boost_high)
                     ELSE IF RLt(potential_mid, pp) THEN RMul(base0, risk_boost_mid)
                     ELSE base0
        price_diff == RAbs(RSub(current_price, stop_loss_price))
        ceiling == LET a == max_exposure
                       b == RMul(exposure_slope, RDiv(pp, potential_mid))
                   IN  IF RLt(a, b) THEN b ELSE a
    IN  IF price_diff = Zero THEN Zero
        ELSE LET position_size == RDiv(base_risk, price_diff)
                 max_position_value == RMul(bal, ceiling)
             IN  IF RLt(max_position_value, RMul(position_size, current_price))
                 THEN IF current_price = Zero
                      THEN Zero
                      ELSE RDiv(max_position_value, current_price)
                 ELSE position_size

calculate_position_size(bal, current_price, stop_loss_price, pp) ==
    LET base0 == RMul(bal, risk_per_trade)
        base_risk == IF RLt(potential_high, pp) THEN RMul(base0, risk_boost_high)
                     ELSE IF RLt(potential_mid, pp) THEN RMul(base0, risk_boost_mid)
                     ELSE base0
        price_diff == RAbs(RSub(current_price, stop_loss_price))
    IN  IF price_diff = Zero THEN Zero
        ELSE LET position_size == RDiv(base_risk, price_diff)
                 max_position_value ==
                     RMul(bal, RMin(max_exposure,
                                    RMul(exposure_slope, RDiv(pp, potential_mid))))
             IN  IF RLt(max_position_value, RMul(position_size, current_price))
                 THEN IF current_price = Zero
                      THEN Zero        \* ZeroDivisionError, caught: return 0
                      ELSE RDiv(max_position_value, current_price)
                 ELSE position_size

---------------------------------------------------------------------------
(* The Position Manager.  A bot state is the record of the five fields the *)
(* handlers assign, with the results file and what save_trade_to_file saw;  *)
(* each handler is a function from the state before the call to the state   *)
(* after it.                                                               *)

Bot == [balance |-> balance, position |-> position, trades |-> trades,
        total_trades |-> total_trades, winning_trades |-> winning_trades,
        results_file |-> results_file, at_save |-> at_save]

IsOpen(st) == st.position # None

Pos(st) == st.position[1]

\* What is in memory when save_trade_to_file is entered: the balance, whether
\* a position is recorded, and the record to save.
Seen(st, trade_info) ==
    [balance |-> st.balance, held |-> st.position # None, record |-> trade_info]

\* Lines 638-647: what json.dump writes.
Results(st) ==
    [current_balance |-> st.balance,
     total_profit |-> RSub(st.balance, initial_balance),
     total_trades |-> st.total_trades,
     winning_trades |-> st.winning_trades]

\* Mutant of save_trade_to_file: a failure of the write is not caught.
save_trade_to_file_raises(st, trade_info) ==
    [raised |-> disk = "failing",
     st |-> [st EXCEPT !.at_save = <<Seen(st, trade_info)>>,
                       !.results_file = IF disk = "ok" THEN <<Results(st)>> ELSE @]]

\* save_trade_to_file: the write goes through, or it raises and the except of
\* line 656 logs the error; the call returns normally either way.
save_trade_to_file(st, trade_info) ==
    [raised |-> FALSE,
     st |-> [st EXCEPT !.at_save = <<Seen(st, trade_info)>>,
                       !.results_file = IF disk = "ok" THEN <<Results(st)>> ELSE @]]

\* Mutant of Credited: the balance is credited with the profit instead of the
\* proceeds.
Credited_adds_profit(st, current_price, trade_info) ==
    [st EXCEPT !.balance = RAdd(st.balance, trade_info.profit_loss),
               !.total_trades = @ + 1,
               !.winning_trades = IF RLt(Zero, trade_info.profit_loss) THEN @ + 1 ELSE @,
               !.trades = Append(@, trade_info)]

\* Lines 607-625 and 551-570: the credit, the counters and the record of a
\* close, up to the call of save_trade_to_file; the position is still there.
Credited(st, current_price, trade_info) ==
    [st EXCEPT !.balance = RAdd(st.balance, RMul(Pos(st).size, current_price)),
               !.total_trades = @ + 1,
               !.winning_trades = IF RLt(Zero, trade_info.profit_loss) THEN @ + 1 ELSE @,
               !.trades = Append(@, trade_info)]

\* Mutant of force_close_position: the balance is credited with the profit
\* instead of the proceeds.
force_close_credits_profit(st, current_price, reason, symbol) ==
    IF ~IsOpen(st) THEN st
    ELSE LET p == Pos(st)
             profit_loss == RMul(RSub(current_price, p.entry_price), p.size)
             trade_info == [type |-> "SELL", symbol |-> symbol,
                            price |-> current_price, size |-> p.size,
                            profit_loss |-> profit_loss,
                            entry_price |-> p.entry_price, reason |-> reason]
             st1 == [Credited(st, current_price, trade_info)
                        EXCEPT !.balance = RAdd(st.balance, profit_loss)]
             saved == save_trade_to_file(st1, trade_info)
         IN  [saved.st EXCEPT !.position = None]

\* Mutant of force_close_position: the close leaves no record in the log.
force_close_unrecorded(st, current_price, reason, symbol) ==
    IF ~IsOpen(st) THEN st
    ELSE LET p == Pos(st)
             profit_loss == RMul(RSub(current_price, p.entry_price), p.size)
             trade_info == [type |-> "SELL", symbol |-> symbol,
                            price |-> current_price, size |-> p.size,
                            profit_loss |-> profit_loss,
                            entry_price |-> p.entry_price, reason |-> reason]
             st1 == [Credited(st, current_price, trade_info) EXCEPT !.trades = st.trades]
         IN  [st1 EXCEPT !.position = None]

force_close_position(st, current_price, reason, symbol) ==
    IF ~IsOpen(st) THEN st                 \* TypeError on None, caught at 630
    ELSE IF Pos(st).type = "BUY"
    THEN LET p == Pos(st)
             profit_loss == RMul(RSub(current_price, p.entry_price), p.size)
             trade_info == [type |-> "SELL", symbol |-> symbol,
                            price |-> current_price, size |-> p.size,
                            profit_loss |-> profit_loss,
                            entry_price |-> p.entry_price, reason |-> reason]
             saved == save_trade_to_file(Credited(st, current_price, trade_info),
                                         trade_info)
         IN  IF saved.raised
             THEN saved.st                 \* caught at 630, line 628 not reached
             ELSE [saved.st EXCEPT !.position = None]
    ELSE st

\* Mutant of TrailStop: the new stop is 1% under the entry instead of 1% over.
TrailStop_below_entry(p, current_price) ==
    IF RLe(RMul(p.entry_price, trail_trigger), current_price)
       /\ RLt(p.stop_loss, RMul(p.entry_price, R(99, 100)))
    THEN [p EXCEPT !.stop_loss = RMul(p.entry_price, R(99, 100))]
    ELSE p

\* The trailing-stop ratchet of lines 588-591.
TrailStop(p, current_price) ==
    IF RLe(RMul(p.entry_price, trail_trigger), current_price)
       /\ RLt(p.stop_loss, RMul(p.entry_price, trail_stop))
    THEN [p EXCEPT !.stop_loss = RMul(p.entry_price, trail_stop)]
    ELSE p

manage_open_position(st, current_price, symbol) ==
    IF ~IsOpen(st) THEN st                 \* TypeError on None, caught at 600
    ELSE IF Pos(st).type = "BUY"
    THEN LET p == TrailStop(Pos(st), current_price)
             st1 == [st EXCEPT !.position = <<p>>]
         IN  IF RLe(current_price, p.stop_loss)
             THEN force_close_position(st1, current_price, "Stop Loss", symbol)
             ELSE IF RLe(p.take_profit, current_price)
             THEN force_close_position(st1, current_price, "Take Profit", symbol)
             ELSE st1
    ELSE st

\* Mutant of TakeProfitPct: > instead of >=.
TakeProfitPct_strict(signal_strength) ==
    IF signal_strength > strong_signal_strength THEN take_profit_strong
    ELSE take_profit_base

\* take_profit_pct of lines 507-513.
TakeProfitPct(signal_strength) ==
    IF signal_strength >= strong_signal_strength THEN take_profit_strong
    ELSE take_profit_base

\* Mutant of OpenPosition: position_size >= 0 instead of > 0.
OpenPosition_accepts_zero(st, signal_strength, current_price, symbol, pp) ==
    LET take_profit_pct == TakeProfitPct(signal_strength)
        stop_loss_price == RMul(current_price, RSub(R(1, 1), stop_loss_pct))
        take_profit_price == RMul(current_price, RAdd(R(1, 1), take_profit_pct))
        position_size == calculate_position_size(st.balance, current_price,
                                                 stop_loss_price, pp)
        trade_info == [type |-> "BUY", symbol |-> symbol, price |-> current_price,
                       size |-> position_size, signal_strength |-> signal_strength,
                       take_profit_pct |-> take_profit_pct,
                       stop_loss_pct |-> stop_loss_pct]
        st1 == [st EXCEPT
                  !.position = <<[entry_price |-> current_price,
                                  size |-> position_size,
                                  stop_loss |-> stop_loss_price,
                                  take_profit |-> take_profit_price,
                                  type |-> "BUY",
                                  signal_strength |-> signal_strength,
                                  symbol |-> symbol]>>,
                  !.balance = RSub(st.balance, RMul(position_size, current_price)),
                  !.trades = Append(st.trades, trade_info)]
    IN  IF RLe(Zero, position_size)
        THEN save_trade_to_file(st1, trade_info).st   \* only logging follows the save
        ELSE st

\* The Flat -> Open branch, lines 505-547.
OpenPosition(st, signal_strength, current_price, symbol, pp) ==
    LET take_profit_pct == TakeProfitPct(signal_strength)
        stop_loss_price == RMul(current_price, RSub(R(1, 1), stop_loss_pct))
        take_profit_price == RMul(current_price, RAdd(R(1, 1), take_profit_pct))
        position_size == calculate_position_size(st.balance, current_price,
                                                 stop_loss_price, pp)
        trade_info == [type |-> "BUY", symbol |-> symbol, price |-> current_price,
                       size |-> position_size, signal_strength |-> signal_strength,
                       take_profit_pct |-> take_profit_pct,
                       stop_loss_pct |-> stop_loss_pct]
        st1 == [st EXCEPT
                  !.position = <<[entry_price |-> current_price,
                                  size |-> position_size,
                                  stop_loss |-> stop_loss_price,
                                  take_profit |-> take_profit_price,
                                  type |-> "BUY",
                                  signal_strength |-> signal_strength,
                                  symbol |-> symbol]>>,
                  !.balance = RSub(st.balance, RMul(position_size, current_price)),
                  !.trades = Append(st.trades, trade_info)]
    IN  IF RLt(Zero, position_size)
        THEN save_trade_to_file(st1, trade_info).st   \* only logging follows the save
        ELSE st

\* Mutant of SellPosition: a break-even close counted as a win (>= 0).
SellPosition_counts_breakeven(st, current_price, symbol) ==
    LET p == Pos(st)
        profit_loss == RMul(RSub(current_price, p.entry_price), p.size)
        trade_info == [type |-> "SELL", symbol |-> symbol, price |-> current_price,
                       size |-> p.size, profit_loss |-> profit_loss,
                       entry_price |-> p.entry_price]
        st1 == [Credited(st, current_price, trade_info)
                   EXCEPT !.winning_trades = IF RLe(Zero, profit_loss)
                                             THEN st.winning_trades + 1
                                             ELSE st.winning_trades]
        saved == save_trade_to_file(st1, trade_info)
    IN  [saved.st EXCEPT !.position = None]

\* The Open -> Flat branch on a SELL signal, lines 550-574.
SellPosition(st, current_price, symbol) ==
    LET p == Pos(st)
        profit_loss == RMul(RSub(current_price, p.entry_price), p.size)
        trade_info == [type |-> "SELL", symbol |-> symbol, price |-> current_price,
                       size |-> p.size, profit_loss |-> profit_loss,
                       entry_price |-> p.entry_price]
        saved == save_trade_to_file(Credited(st, current_price, trade_info), trade_info)
    IN  IF saved.raised
        THEN saved.st                      \* caught at 580, line 574 not reached
        ELSE [saved.st EXCEPT !.position = None]

\* Mutant of execute_trade: the BUY branch without the test that no position
\* is held.
execute_trade_reopens(st, signal, signal_strength, current_price, symbol, pp) ==
    IF signal = "BUY"
    THEN OpenPosition(st, signal_strength, current_price, symbol, pp)
    ELSE IF signal = "SELL" /\ IsOpen(st) /\ Pos(st).symbol = symbol
    THEN SellPosition(st, current_price, symbol)
    ELSE IF IsOpen(st) /\ Pos(st).symbol = symbol
    THEN manage_open_position(st, current_price, symbol)
    ELSE st

execute_trade(st, signal, signal_strength, current_price, symbol, pp) ==
    IF signal = "BUY" /\ ~IsOpen(st)
    THEN OpenPosition(st, signal_strength, current_price, symbol, pp)
    ELSE IF signal = "SELL" /\ IsOpen(st) /\ Pos(st).symbol = symbol
    THEN SellPosition(st, current_price, symbol)
    ELSE IF IsOpen(st) /\ Pos(st).symbol = symbol
    THEN manage_open_position(st, current_price, symbol)
    ELSE st

Commit(st) ==
    /\ balance' = st.balance
    /\ position' = st.position
    /\ trades' = st.trades
    /\ total_trades' = st.total_trades
    /\ winning_trades' = st.winning_trades
    /\ results_file' = st.results_file
    /\ at_save' = st.at_save

---------------------------------------------------------------------------
(* The Signal Engine: aggressive_profit_strategy on the last row of the     *)
(* indicator frame.  A frame df is None or <<[n |-> len(df), current |->    *)
(* df.iloc[-1], ...]>>; a field of the row is a rational or NaN (a missing  *)
(* column reads as NaN too: current.get gives None).                       *)

NaN == <<0, 0>>

safe_value(current, key, default) ==
    IF current[key] = NaN THEN default ELSE current[key]

HighVolSymbols == {"SOL/USDT", "AVAX/USDT", "ADA/USDT", "DOT/USDT"}

\* The values of lines 329-343.
SafeRow(current) ==
    [ma_10 |-> safe_value(current, "MA_10", Zero),
     ma_20 |-> safe_value(current, "MA_20", Zero),
     ma_50 |-> safe_value(current, "MA_50", Zero),
     rsi_7 |-> safe_value(current, "RSI_7", R(50, 1)),
     rsi_14 |-> safe_value(current, "RSI_14", R(50, 1)),
     macd |-> safe_value(current, "MACD", Zero),
     macd_signal |-> safe_value(current, "MACD_Signal", Zero),
     volume_ratio |-> safe_value(current, "Volume_Ratio", R(1, 1)),
     bb_upper |-> safe_value(current, "BB_Upper",
                             IF current["close"] = NaN THEN NaN
                             ELSE RMul(current["close"], R(11, 10))),
     bb_middle |-> safe_value(current, "BB_Middle", current["close"]),
     stoch_k |-> safe_value(current, "Stoch_K", R(50, 1)),
     stoch_d |-> safe_value(current, "Stoch_D", R(50, 1)),
     momentum |-> safe_value(current, "Momentum", Zero),
     price_change |-> safe_value(current, "Price_Change", Zero),
     current_close |-> safe_value(current, "close", Zero)]

\* A comparison with NaN is False.
Lt(a, b) == a # NaN /\ b # NaN /\ RLt(a, b)

Le(a, b) == a # NaN /\ b # NaN /\ RLe(a, b)

strong_buy_conditions(v) ==
    << Lt(v.ma_20, v.ma_10) /\ Lt(v.ma_50, v.ma_20),
       Lt(R(30, 1), v.rsi_7) /\ Lt(v.rsi_7, R(80, 1)),
       Lt(v.macd_signal, v.macd),
       Lt(R(12, 10), v.volume_ratio),
       v.bb_upper # NaN /\ Lt(RMul(v.bb_upper, R(98, 100)), v.current_close),
       Lt(v.stoch_d, v.stoch_k) /\ Lt(v.stoch_k, R(80, 1)),
       Lt(Zero, v.momentum),
       Lt(R(-2, 100), v.price_change) >>

strong_sell_conditions(v, pos) ==
    << Lt(v.ma_10, v.ma_20),
       Lt(R(75, 1), v.rsi_14),
       Lt(v.macd, v.macd_signal),
       Lt(v.volume_ratio, R(8, 10)),
       Lt(v.current_close, v.bb_middle),
       Lt(v.stoch_k, v.stoch_d),
       Lt(v.momentum, Zero),
       pos # None /\ Le(RMul(pos[1].entry_price, R(108, 100)), v.current_close) >>

\* sum(conditions)
CountTrue(conds) == Cardinality({i \in 1..Len(conds) : conds[i]})

\* Mutant of buy_score: the bonus given to every symbol.
buy_score_bonus_for_all(v, symbol) ==
    2 * CountTrue(strong_buy_conditions(v))
    + (IF Lt(R(15, 10), v.volume_ratio) THEN 2 ELSE 0)
    + (IF Lt(R(5, 100), RAbs(v.price_change)) THEN 1 ELSE 0)

buy_score(v, symbol) ==
    2 * CountTrue(strong_buy_conditions(v))
    + (IF symbol \in HighVolSymbols
       THEN (IF Lt(R(15, 10), v.volume_ratio) THEN 2 ELSE 0)
            + (IF Lt(R(5, 100), RAbs(v.price_change)) THEN 1 ELSE 0)
       ELSE 0)

sell_score(v, pos) == CountTrue(strong_sell_conditions(v, pos))

BuyThreshold == 8
SellThreshold == 4
MinBars == 50

\* Mutant of TradingDecision: the SELL test made before the BUY test.
TradingDecision_sell_first(buy, sell, current_close, pos) ==
    IF sell >= SellThreshold
       \/ (pos # None /\ Le(current_close, pos[1].stop_loss))
    THEN <<"SELL", sell>>
    ELSE IF buy >= BuyThreshold
    THEN <<"BUY", buy>>
    ELSE <<"HOLD", 0>>

\* Lines 460-465.
TradingDecision(buy, sell, current_close, pos) ==
    IF buy >= BuyThreshold
    THEN <<"BUY", buy>>
    ELSE IF sell >= SellThreshold
            \/ (pos # None /\ Le(current_close, pos[1].stop_loss))
    THEN <<"SELL", sell>>
    ELSE <<"HOLD", 0>>

aggressive_profit_strategy(df, symbol, pos) ==
    IF df = None \/ df[1].n < MinBars THEN <<"HOLD", 0>>
    ELSE LET v == SafeRow(df[1].current)
         IN  TradingDecision(buy_score(v, symbol), sell_score(v, pos),
                             v.current_close, pos)

---------------------------------------------------------------------------
(* Bounds of the model and the inputs the environment offers.              *)

MaxTrades == 1

Symbols == {"SOL/USDT", "BTC/USDT"}

\* Prices a call may carry while a position is open.  Around an entry of 100:
\* 96 is under the stop (98.5), 104 is past the trailing trigger (103), 106 and
\* 108 are the two take-profit levels.
Prices == {R(96, 1), R(100, 1), R(104, 1), R(106, 1), R(108, 1)}

\* Prices at which a BUY arrives while Flat.
EntryPrices == {Zero, R(100, 1)}

\* <<signal, signal_strength>>
SignalInputs == {<<"BUY", 9>>, <<"BUY", 10>>, <<"SELL", 4>>, <<"HOLD", 0>>}

\* What analyze_coin_potential answers inside calculate_position_size.
Potentials == {Zero, R(100, 1)}

---------------------------------------------------------------------------
(* Spec: the Position Manager driven by arbitrary calls of its three       *)
(* handlers.                                                               *)

NoCall == [op |-> "init", signal |-> "", strength |-> 0, price |-> Zero,
           symbol |-> "", pp |-> Zero, pre |-> None, open_bal |-> None]

\* The record of a call: its arguments, the state it started from, and, when
\* the call before it opened the position, the balance before that open.
Called(op, signal, strength, price, symbol, pp) ==
    [op |-> op, signal |-> signal, strength |-> strength, price |-> price,
     symbol |-> symbol, pp |-> pp, pre |-> <<Bot>>,
     open_bal |-> IF last.pre # None /\ ~IsOpen(last.pre[1]) /\ IsOpen(Bot)
                  THEN <<last.pre[1].balance>>
                  ELSE None]

DiskStates == {"ok", "failing"}

\* The collaborator works in Spec and SpecRun; SpecLedger has it fail too.
InitBot ==
    /\ disk = "ok"
    /\ results_file = None
    /\ at_save = None
    /\ balance = initial_balance
    /\ position = None
    /\ trades = <<>>
    /\ total_trades = 0
    /\ winning_trades = 0
    /\ last = NoCall

InitLoop ==
    /\ pc = "top"
    /\ best_coins = <<>>
    /\ idx = 1
    /\ cycles = 0
    /\ cyc = <<>>

InitPure ==
    /\ arg = <<>>
    /\ ret = <<>>

Init == InitBot /\ InitLoop /\ InitPure

CallExecuteTrade ==
    \E sig \in SignalInputs, symbol \in Symbols :
      \E current_price \in (IF sig[1] = "BUY" /\ position = None
                            THEN EntryPrices ELSE Prices) :
        \E pp \in (IF sig[1] = "BUY" THEN Potentials ELSE {Zero}) :
          /\ (sig[1] = "BUY" /\ position = None) => total_trades < MaxTrades
          /\ Commit(execute_trade(Bot, sig[1], sig[2], current_price, symbol, pp))
          /\ last' = Called("execute_trade", sig[1], sig[2], current_price, symbol, pp)
          /\ UNCHANGED <<loop, pure, disk>>

CallManageOpenPosition ==
    \E current_price \in Prices, symbol \in Symbols :
      /\ Commit(manage_open_position(Bot, current_price, symbol))
      /\ last' = Called("manage_open_position", "", 0, current_price, symbol, Zero)
      /\ UNCHANGED <<loop, pure, disk>>

CallForceClosePosition ==
    \E current_price \in Prices, symbol \in Symbols :
      /\ Commit(force_close_position(Bot, current_price, "Manual", symbol))
      /\ last' = Called("force_close_position", "", 0, current_price, symbol, Zero)
      /\ UNCHANGED <<loop, pure, disk>>

Next ==
    \/ CallExecuteTrade
    \/ CallManageOpenPosition
    \/ CallForceClosePosition

Spec == Init /\ [][Next]_vars

---------------------------------------------------------------------------
(* Claims about the Position Manager, checked under Spec.                  *)

Pre == last.pre[1]

Made(op) == last.pre # None /\ last.op = op

BuyWhileOpen == Made("execute_trade") /\ last.signal = "BUY" /\ IsOpen(Pre)

Opened == last.pre # None /\ ~IsOpen(Pre) /\ IsOpen(Bot)

Closed == last.pre # None /\ IsOpen(Pre) /\ ~IsOpen(Bot)

StillOpen == last.pre # None /\ IsOpen(Pre) /\ IsOpen(Bot)

LastTrade == trades[Len(trades)]

Count(type) == Cardinality({i \in 1..Len(trades) : trades[i].type = type})

RMax(a, b) == IF RLt(a, b) THEN b ELSE a

\* C1 as stated: a BUY while a position is open, for any strength, price and
\* symbol, leaves position, balance, total_trades, winning_trades and the trade
\* log unchanged.
C1_BuyWhileOpenIsNoOp == BuyWhileOpen => Bot = Pre

\* C1 amended: at most one position is ever held (opens minus closes is 0 when
\* Flat and 1 when Open), and a BUY while Open never opens a second position:
\* for another symbol nothing changes; for the held symbol the call is
\* manage_open_position at that price, which may raise stop_loss or force-close
\* the position but never debits the balance, never appends a BUY record and
\* never changes entry_price, size, symbol or take_profit.
C1_BuyWhileOpenOpensNothing ==
    /\ Count("BUY") - Count("SELL") = Len(position)
    /\ BuyWhileOpen =>
         /\ Pos(Pre).symbol # last.symbol => Bot = Pre
         /\ Pos(Pre).symbol = last.symbol =>
              Bot = manage_open_position(Pre, last.price, last.symbol)
         /\ RLe(Pre.balance, balance)
         /\ \/ trades = Pre.trades
            \/ /\ Len(trades) = Len(Pre.trades) + 1
               /\ LastTrade.type = "SELL"
               /\ position = None
         /\ IsOpen(Bot) =>
              /\ Pos(Bot).entry_price = Pos(Pre).entry_price
              /\ Pos(Bot).size = Pos(Pre).size
              /\ Pos(Bot).symbol = Pos(Pre).symbol
              /\ Pos(Bot).take_profit = Pos(Pre).take_profit
              /\ balance = Pre.balance

\* C1 witness: a BUY for the held symbol arrived while Open and raised the stop.
C1_Witness ==
    /\ BuyWhileOpen
    /\ IsOpen(Bot)
    /\ Pos(Pre).symbol = last.symbol
    /\ RLt(Pos(Pre).stop_loss, Pos(Bot).stop_loss)

\* C2: while a position stays open no call lowers its stop_loss, and after a
\* call that carries a price of the held instrument (manage_open_position, or
\* execute_trade for the held symbol) with price >= entry_price * 1.03 and the
\* position still open, stop_loss = max(previous stop_loss, entry_price * 1.01).
C2_StopLossRatchet ==
    StillOpen =>
      /\ RLe(Pos(Pre).stop_loss, Pos(Bot).stop_loss)
      /\ Pos(Bot).entry_price = Pos(Pre).entry_price
      /\ ( /\ \/ last.op = "manage_open_position"
              \/ last.op = "execute_trade" /\ last.symbol = Pos(Pre).symbol
           /\ RLe(RMul(Pos(Pre).entry_price, R(103, 100)), last.price) )
         => Pos(Bot).stop_loss =
              RMax(Pos(Pre).stop_loss, RMul(Pos(Pre).entry_price, R(101, 100)))

\* C2 witness: a call at 104 on an entry of 100 left the position open with the
\* stop raised from 98.5 to 101.
C2_Witness ==
    /\ StillOpen
    /\ last.price = R(104, 1)
    /\ Pos(Pre).stop_loss = R(985, 10)
    /\ Pos(Bot).stop_loss = R(101, 1)

\* C3: every Open -> Flat transition, by a SELL in execute_trade or by
\* force_close_position, appends one SELL record with
\* profit_loss = (exit_price - entry_price) * size, credits size * exit_price,
\* adds 1 to total_trades and adds 1 to winning_trades iff profit_loss > 0.
C3_CloseAccounting ==
    Closed =>
      LET p == Pos(Pre)
          pl == RMul(RSub(last.price, p.entry_price), p.size)
      IN  /\ Len(trades) = Len(Pre.trades) + 1
          /\ SubSeq(trades, 1, Len(Pre.trades)) = Pre.trades
          /\ LastTrade.type = "SELL"
          /\ LastTrade.price = last.price
          /\ LastTrade.size = p.size
          /\ LastTrade.entry_price = p.entry_price
          /\ LastTrade.profit_loss = pl
          /\ balance = RAdd(Pre.balance, RMul(p.size, last.price))
          /\ total_trades = Pre.total_trades + 1
          /\ winning_trades = Pre.winning_trades + (IF pl[1] > 0 THEN 1 ELSE 0)
          /\ position = None

\* C3 witness: a SELL signal closed the position at a profit.
C3_Witness ==
    /\ Closed
    /\ last.op = "execute_trade"
    /\ last.signal = "SELL"
    /\ winning_trades = Pre.winning_trades + 1

\* C3 second case: force_close_position closed the position at a loss.
C3_WitnessForced ==
    /\ Closed
    /\ last.op = "force_close_position"
    /\ LastTrade.profit_loss[1] < 0
    /\ winning_trades = Pre.winning_trades

RoundTrip ==
    /\ Made("force_close_position")
    /\ IsOpen(Pre)
    /\ last.open_bal # None
    /\ last.price = Pos(Pre).entry_price

BuyWhileFlat == Made("execute_trade") /\ last.signal = "BUY" /\ ~IsOpen(Pre)

SizeOffered ==
    calculate_position_size(Pre.balance, last.price,
                            RMul(last.price, R(985, 1000)), last.pp)

\* C9: a BUY while Flat whose computed size is <= 0 changes nothing: the
\* position stays absent, balance and counters keep their values, no record.
C9_ZeroSizeAbortsOpen ==
    (BuyWhileFlat /\ RLe(SizeOffered, Zero)) =>
      /\ Bot = Pre
      /\ position = None

\* C9 witness: a BUY at 100 with opportunity score 0 was refused.
C9_Witness ==
    /\ BuyWhileFlat
    /\ RLe(SizeOffered, Zero)
    /\ last.price = R(100, 1)
    /\ last.pp = Zero

\* C9 second case: a BUY at price 0 (stop distance 0) with a positive score.
C9_WitnessZeroDistance ==
    /\ BuyWhileFlat
    /\ last.price = Zero
    /\ RLt(Zero, last.pp)
    /\ position = None

\* C10: a position is created only by a BUY; at entry price p and strength s it
\* has stop_loss = p * (1 - 0.015), take_profit = p * 1.08 if s >= 10 and
\* p * 1.06 otherwise, and the balance is debited by exactly size * p.
C10_OpenLevels ==
    Opened =>
      LET p == Pos(Bot)
      IN  /\ last.op = "execute_trade"
          /\ last.signal = "BUY"
          /\ p.entry_price = last.price
          /\ p.symbol = last.symbol
          /\ p.signal_strength = last.strength
          /\ p.stop_loss = RMul(last.price, R(985, 1000))
          /\ p.take_profit = IF last.strength >= 10
                             THEN RMul(last.price, R(108, 100))
                             ELSE RMul(last.price, R(106, 100))
          /\ RLt(Zero, p.size)
          /\ p.size = SizeOffered
          /\ balance = RSub(Pre.balance, RMul(p.size, last.price))

\* C10 witness: a strong BUY (strength 10) opened a position at 100.
C10_Witness ==
    /\ Opened
    /\ last.strength = 10
    /\ Pos(Bot).take_profit = R(108, 1)

\* C10 second case: a BUY of strength 9 opened with the 6% target.
C10_WitnessBase ==
    /\ Opened
    /\ last.strength = 9
    /\ Pos(Bot).take_profit = R(106, 1)

---------------------------------------------------------------------------
(* SpecStrategy: aggressive_profit_strategy applied to every row of a grid  *)
(* of indicator rows, for each symbol, with and without a position.        *)

Trends == {<<R(110, 1), R(105, 1), R(100, 1)>>, <<R(100, 1), R(105, 1), R(110, 1)>>}
MacdPairs == {<<R(1, 1), R(1, 2)>>, <<R(-1, 1), Zero>>}
StochPairs == {<<R(60, 1), R(55, 1)>>, <<R(40, 1), R(55, 1)>>}

StrategyRows ==
    { [MA_10 |-> t[1], MA_20 |-> t[2], MA_50 |-> t[3],
       RSI_7 |-> r7, RSI_14 |-> r14,
       MACD |-> m[1], MACD_Signal |-> m[2],
       Volume_Ratio |-> vr, BB_Upper |-> bu, BB_Middle |-> bm,
       Stoch_K |-> k[1], Stoch_D |-> k[2],
       Momentum |-> mo, Price_Change |-> ch, close |-> R(99, 1)] :
        t \in Trends, r7 \in {R(50, 1), R(85, 1)}, r14 \in {R(50, 1), R(80, 1)},
        m \in MacdPairs, vr \in {R(1, 2), R(13, 10), R(16, 10)},
        bu \in {R(100, 1), R(120, 1)}, bm \in {R(95, 1), R(105, 1)},
        k \in StochPairs, mo \in {R(2, 1), R(-1, 1)},
        ch \in {R(-1, 100), R(-6, 100), R(6, 100)} }

\* A row whose indicator columns are all missing.
BareRow ==
    [MA_10 |-> NaN, MA_20 |-> NaN, MA_50 |-> NaN, RSI_7 |-> NaN, RSI_14 |-> NaN,
     MACD |-> NaN, MACD_Signal |-> NaN, Volume_Ratio |-> NaN, BB_Upper |-> NaN,
     BB_Middle |-> NaN, Stoch_K |-> NaN, Stoch_D |-> NaN, Momentum |-> NaN,
     Price_Change |-> NaN, close |-> R(99, 1)]

FreshBot == [balance |-> initial_balance, position |-> None, trades |-> <<>>,
             total_trades |-> 0, winning_trades |-> 0, results_file |-> None,
             at_save |-> None]

\* The bot with no position; with one bought at 90 (the close of 99 is 8% over
\* it); with one bought at 100 whose stop a price of 104 raised to 101 (the
\* close of 99 is under it).
StrategyBots ==
    {FreshBot,
     OpenPosition(FreshBot, 9, R(90, 1), "SOL/USDT", R(100, 1)),
     manage_open_position(OpenPosition(FreshBot, 9, R(100, 1), "SOL/USDT", R(100, 1)),
                          R(104, 1), "SOL/USDT")}

ShortFrame == MinBars - 1

StrategyInputs ==
    {[df |-> <<[n |-> MinBars, current |-> row]>>, symbol |-> sym] :
        row \in StrategyRows \cup {BareRow}, sym \in Symbols}
    \cup {[df |-> <<[n |-> ShortFrame, current |-> BareRow]>>, symbol |-> sym] :
             sym \in Symbols}

InitStrategy ==
    /\ disk = "ok"
    /\ \E b \in StrategyBots :
         /\ results_file = b.results_file
         /\ at_save = b.at_save
         /\ balance = b.balance
         /\ position = b.position
         /\ trades = b.trades
         /\ total_trades = b.total_trades
         /\ winning_trades = b.winning_trades
    /\ last = NoCall
    /\ InitLoop
    /\ arg \in StrategyInputs
    /\ ret = <<>>

EvalStrategy ==
    /\ ret = <<>>
    /\ ret' = <<aggressive_profit_strategy(arg.df, arg.symbol, position)>>
    /\ UNCHANGED <<acct, last, loop, arg, disk>>

SpecStrategy == InitStrategy /\ [][EvalStrategy]_vars

Evaluated == ret # <<>> /\ arg.df[1].n >= 50

ArgBuy == buy_score(SafeRow(arg.df[1].current), arg.symbol)

ArgSell == sell_score(SafeRow(arg.df[1].current), position)

StopReached ==
    position # None /\ RLe(SafeRow(arg.df[1].current).current_close, position[1].stop_loss)

\* C6: the decision is (BUY, buy_score) whenever buy_score >= 8, even if
\* sell_score >= 4 or the open position's stop_loss has been reached; otherwise
\* (SELL, sell_score) exactly when sell_score >= 4 or a position is open and
\* close <= its stop_loss; otherwise (HOLD, 0).
C6_DecisionPrecedence ==
    Evaluated =>
      /\ ArgBuy >= 8 => ret[1] = <<"BUY", ArgBuy>>
      /\ (ArgBuy < 8 /\ (ArgSell >= 4 \/ StopReached)) => ret[1] = <<"SELL", ArgSell>>
      /\ (ArgBuy < 8 /\ ArgSell < 4 /\ ~StopReached) => ret[1] = <<"HOLD", 0>>

\* C6 witness: BUY was returned although sell_score >= 4 and the stop of the
\* open position had been reached.
C6_Witness ==
    /\ Evaluated
    /\ ret[1][1] = "BUY"
    /\ ArgSell >= 4
    /\ StopReached

\* C6 second case: SELL returned on the stop alone, with sell_score < 4.
C6_WitnessStopOnly ==
    /\ Evaluated
    /\ ret[1][1] = "SELL"
    /\ ArgSell < 4
    /\ StopReached

---------------------------------------------------------------------------
(* SpecSize: calculate_position_size applied to a grid of balances, entry  *)
(* prices, stop prices and opportunity scores.                             *)

SizeBalances == {R(1, 1), R(500, 1), R(1000, 1)}
SizePrices == {R(1, 1), R(100, 1), R(250, 1)}
SizeStops == {Zero, R(1, 2), R(50, 1), R(985, 10), R(100, 1), R(150, 1)}
SizeScores == {Zero, R(25, 1), R(50, 1), R(51, 1), R(70, 1), R(71, 1), R(80, 1),
               R(375, 4), R(100, 1)}

InitSize ==
    /\ disk = "ok"
    /\ results_file = None
    /\ at_save = None
    /\ balance \in SizeBalances
    /\ position = None
    /\ trades = <<>>
    /\ total_trades = 0
    /\ winning_trades = 0
    /\ last = NoCall
    /\ InitLoop
    /\ arg \in {[current_price |-> c, stop_loss_price |-> sl, pp |-> sc] :
                   c \in SizePrices, sl \in SizeStops, sc \in SizeScores}
    /\ ret = <<>>

EvalSize ==
    /\ ret = <<>>
    /\ ret' = <<calculate_position_size(balance, arg.current_price,
                                        arg.stop_loss_price, arg.pp)>>
    /\ UNCHANGED <<acct, last, loop, arg, disk>>

SpecSize == InitSize /\ [][EvalSize]_vars

Sized == ret # <<>>

SizeCap == RMul(balance, RMin(R(15, 100), RMul(R(8, 100), RDiv(arg.pp, R(50, 1)))))

SizeRaw ==
    RDiv(RMul(RMul(balance, R(25, 1000)),
              IF RLt(R(70, 1), arg.pp) THEN R(15, 10)
              ELSE IF RLt(R(50, 1), arg.pp) THEN R(12, 10) ELSE R(1, 1)),
         RAbs(RSub(arg.current_price, arg.stop_loss_price)))

C7_WitnessUncapped ==
    /\ Sized
    /\ RLt(R(70, 1), arg.pp)
    /\ RLt(Zero, ret[1])
    /\ RLt(RMul(ret[1], arg.current_price), SizeCap)

---------------------------------------------------------------------------
(* SpecRun: the session loop.  One step of the model is one stretch of run  *)
(* between two waits on the exchange: the drawdown check (732), the scoring *)
(* of one symbol by get_best_coins_for_trading (146-155, with the sort and  *)
(* the slice after the last symbol), the visit of one entry of best_coins   *)
(* (743-769), the end of the cycle (771-783).  What the exchange answers is *)
(* drawn by the environment.  An entry of coin_scores keeps 'symbol' and    *)
(* 'profit_potential'; its 'price' is read nowhere and is left out.         *)

MaxCycles == 2

\* self.active_symbols, cut to four of its entries, in the order of the list.
active_symbols == <<"BTC/USDT", "ETH/USDT", "ADA/USDT", "SOL/USDT">>

top_n == 3

min_potential == R(20, 1)

\* What get_current_price answers: ticker['last'], or None when the fetch
\* raises.
RunPrices == {R(96, 1), R(100, 1), R(108, 1)}

Fetched == RunPrices \cup {None}

\* What analyze_coin_potential answers during the ranking, and inside
\* calculate_position_size when a position is about to open.
RankPotentials == {R(10, 1), R(60, 1), R(80, 1)}

EntryPotentials == {R(60, 1), R(100, 1)}

\* "if current_price": None and 0 are both false.
Truthy(current_price) == current_price # None /\ current_price # Zero

\* coin_scores.sort(key=profit_potential, reverse=True): a stable sort, so
\* entries of equal score keep the order of active_symbols.
RECURSIVE InsertByPotential(_, _)
InsertByPotential(c, sorted) ==
    IF sorted = <<>> THEN <<c>>
    ELSE IF RLt(sorted[1].profit_potential, c.profit_potential)
    THEN <<c>> \o sorted
    ELSE <<sorted[1]>> \o InsertByPotential(c, Tail(sorted))

RECURSIVE SortByPotential(_)
SortByPotential(coin_scores) ==
    IF coin_scores = <<>> THEN <<>>
    ELSE InsertByPotential(coin_scores[Len(coin_scores)],
                           SortByPotential(SubSeq(coin_scores, 1, Len(coin_scores) - 1)))

\* Lines 158-159.
SortAndSlice(coin_scores, n) ==
    LET sorted == SortByPotential(coin_scores)
    IN  SubSeq(sorted, 1, IF Len(sorted) < n THEN Len(sorted) ELSE n)

\* Lines 147-155: one symbol scored, appended when its price is there and its
\* score is over 20.
ScoreCoin(coin_scores, symbol, profit_potential, current_price) ==
    IF Truthy(current_price) /\ RLt(min_potential, profit_potential)
    THEN Append(coin_scores, [symbol |-> symbol, profit_potential |-> profit_potential])
    ELSE coin_scores

check_drawdown(st) ==
    RLe(max_drawdown, RDiv(RSub(initial_balance, st.balance), initial_balance))

\* Frames the Signal Engine is fed: len(df) and the last row.
BuyRow ==
    [MA_10 |-> R(110, 1), MA_20 |-> R(105, 1), MA_50 |-> R(100, 1),
     RSI_7 |-> R(50, 1), RSI_14 |-> R(50, 1), MACD |-> R(1, 1),
     MACD_Signal |-> R(1, 2), Volume_Ratio |-> R(13, 10), BB_Upper |-> R(100, 1),
     BB_Middle |-> R(95, 1), Stoch_K |-> R(60, 1), Stoch_D |-> R(55, 1),
     Momentum |-> R(2, 1), Price_Change |-> R(-1, 100), close |-> R(99, 1)]

BuyRowMedium ==
    [BuyRow EXCEPT !.MACD = R(-1, 1), !.Volume_Ratio = R(1, 1),
                   !.Stoch_K = R(40, 1), !.Momentum = R(-1, 1)]

SellRow ==
    [MA_10 |-> R(100, 1), MA_20 |-> R(105, 1), MA_50 |-> R(110, 1),
     RSI_7 |-> R(85, 1), RSI_14 |-> R(80, 1), MACD |-> R(-1, 1),
     MACD_Signal |-> Zero, Volume_Ratio |-> R(1, 2), BB_Upper |-> R(120, 1),
     BB_Middle |-> R(105, 1), Stoch_K |-> R(40, 1), Stoch_D |-> R(55, 1),
     Momentum |-> R(-1, 1), Price_Change |-> R(-1, 100), close |-> R(99, 1)]

\* What get_ohlcv_data followed by calculate_indicators answers: None when the
\* fetch raises.
RunFrames ==
    {None}
    \cup {<<[n |-> MinBars, current |-> row]>> :
             row \in {BuyRow, BuyRowMedium, SellRow, BareRow}}
    \cup {<<[n |-> ShortFrame, current |-> BareRow]>>}

\* History of the current cycle: the position at its start; for the
\* instrument held at its start, the prices the exchange answered, whether a
\* fetch failed, whether it is in best_coins, whether the Signal Engine was
\* invoked and whether it gave SELL; and whether the cycle is over.
NewCycle ==
    [start |-> position, fetched |-> {}, failed |-> FALSE, ranked |-> FALSE,
     engine |-> FALSE, sell |-> FALSE, ended |-> FALSE]

HeldAtStart(c, symbol) == c.start # None /\ c.start[1].symbol = symbol

NoteRanking(c, best) ==
    [c EXCEPT !.ranked = \E i \in 1..Len(best) : HeldAtStart(c, best[i].symbol),
              !.ended = (best = <<>>)]

NotePrice(c, symbol, current_price) ==
    IF ~HeldAtStart(c, symbol) THEN c
    ELSE IF current_price = None THEN [c EXCEPT !.failed = TRUE]
    ELSE [c EXCEPT !.fetched = @ \cup {current_price}]

NoteSignal(c, symbol, signal) ==
    IF ~HeldAtStart(c, symbol) THEN c
    ELSE [c EXCEPT !.engine = TRUE, !.sell = (@ \/ signal = "SELL")]

InitRun == InitBot /\ InitLoop /\ InitPure

\* Line 732: check_drawdown() is true and the loop breaks.
RunStop ==
    /\ pc = "top"
    /\ check_drawdown(Bot)
    /\ pc' = "stopped"
    /\ UNCHANGED <<acct, last, best_coins, idx, cycles, cyc, pure, disk>>

\* Lines 732-736: check_drawdown() is false and a new cycle starts.
RunStartCycle ==
    /\ pc = "top"
    /\ ~check_drawdown(Bot)
    /\ cycles < MaxCycles
    /\ pc' = "rank"
    /\ best_coins' = <<>>
    /\ idx' = 1
    /\ cycles' = cycles + 1
    /\ cyc' = <<NewCycle>>
    /\ UNCHANGED <<acct, last, pure, disk>>

\* get_best_coins_for_trading(3), one symbol of active_symbols per step; after
\* the last one the scores are sorted and cut, and an empty ranking ends the
\* cycle at once (738-741).
RunScore ==
    /\ pc = "rank"
    /\ \E profit_potential \in RankPotentials, current_price \in Fetched :
         LET symbol == active_symbols[idx]
             coin_scores == ScoreCoin(best_coins, symbol, profit_potential, current_price)
             best == SortAndSlice(coin_scores, top_n)
             c == NotePrice(cyc[1], symbol, current_price)
         IN  IF idx < Len(active_symbols)
             THEN /\ best_coins' = coin_scores
                  /\ idx' = idx + 1
                  /\ cyc' = <<c>>
                  /\ pc' = pc
             ELSE /\ best_coins' = best
                  /\ idx' = 1
                  /\ cyc' = <<NoteRanking(c, best)>>
                  /\ pc' = IF best = <<>> THEN "top" ELSE "coins"
    /\ UNCHANGED <<acct, last, cycles, pure, disk>>

Coin == best_coins[idx]

Visiting == pc = "coins" /\ idx <= Len(best_coins)

\* Lines 748-752: the entry is the held instrument.
RunManageHeld ==
    /\ Visiting
    /\ position # None /\ position[1].symbol = Coin.symbol
    /\ \E current_price \in Fetched :
         /\ IF Truthy(current_price)
            THEN /\ Commit(manage_open_position(Bot, current_price, Coin.symbol))
                 /\ last' = Called("manage_open_position", "", 0, current_price,
                                   Coin.symbol, Zero)
            ELSE UNCHANGED <<acct, last>>
         /\ cyc' = <<NotePrice(cyc[1], Coin.symbol, current_price)>>
    /\ idx' = idx + 1
    /\ UNCHANGED <<pc, best_coins, cycles, pure, disk>>

\* Lines 755-762: no position, and the price or the frame could not be fetched.
RunFetchFailed ==
    /\ Visiting
    /\ position = None
    /\ idx' = idx + 1
    /\ UNCHANGED <<acct, last, pc, best_coins, cycles, cyc, pure, disk>>

\* Lines 755-769: no position; the Signal Engine is invoked on the frame and a
\* BUY or SELL signal goes to execute_trade.
RunSeekEntry ==
    /\ Visiting
    /\ position = None
    /\ \E current_price \in RunPrices, frame \in RunFrames \ {None},
          pp \in EntryPotentials :
         LET sig == aggressive_profit_strategy(frame, Coin.symbol, position)
         IN  /\ sig[1] # "BUY" => pp = R(60, 1)
             /\ IF sig[1] \in {"BUY", "SELL"}
                THEN /\ Commit(execute_trade(Bot, sig[1], sig[2], current_price,
                                             Coin.symbol, pp))
                     /\ last' = Called("execute_trade", sig[1], sig[2], current_price,
                                       Coin.symbol, pp)
                ELSE UNCHANGED <<acct, last>>
             /\ cyc' = <<NoteSignal(cyc[1], Coin.symbol, sig[1])>>
    /\ idx' = idx + 1
    /\ UNCHANGED <<pc, best_coins, cycles, pure, disk>>

\* Lines 748 and 755 both false: a position is open on another instrument.
RunSkip ==
    /\ Visiting
    /\ position # None /\ position[1].symbol # Coin.symbol
    /\ idx' = idx + 1
    /\ UNCHANGED <<acct, last, pc, best_coins, cycles, cyc, pure, disk>>

\* Lines 771-783: the for loop is over, the loop waits and starts again.
\* best_coins is not read again before line 736 assigns it.
RunCycleEnd ==
    /\ pc = "coins"
    /\ idx > Len(best_coins)
    /\ pc' = "top"
    /\ best_coins' = <<>>
    /\ idx' = 1
    /\ cyc' = <<[cyc[1] EXCEPT !.ended = TRUE]>>
    /\ UNCHANGED <<acct, last, cycles, pure, disk>>

NextRun ==
    \/ RunStop
    \/ RunStartCycle
    \/ RunScore
    \/ RunManageHeld
    \/ RunFetchFailed
    \/ RunSeekEntry
    \/ RunSkip
    \/ RunCycleEnd

SpecRun == InitRun /\ [][NextRun]_vars

---------------------------------------------------------------------------
(* Claims about the session loop, checked under SpecRun.                   *)

CycleOver == cyc # <<>> /\ cyc[1].ended

Crosses(p, current_price) ==
    RLe(current_price, p.stop_loss) \/ RLe(p.take_profit, current_price)

\* C4: a position open at the start of a cycle is Flat at the end of the cycle
\* when the price fetched for the held instrument in that cycle is at or under
\* its stop_loss or at or over its take_profit, whatever the ranking of the
\* cycle.  Stated for the cycles in which every fetch for the held instrument
\* answered, and every answer crosses a level.
C4_CrossingClosesWithinCycle ==
    (/\ CycleOver
     /\ cyc[1].start # None
     /\ ~cyc[1].failed
     /\ cyc[1].fetched # {}
     /\ \A p \in cyc[1].fetched : Crosses(cyc[1].start[1], p))
    => position = None

\* C5: in each cycle the Signal Engine is invoked for every candidate of the
\* ranking, the held instrument included, and a SELL signal it gives for the
\* held instrument makes the position Flat in that cycle.  Stated for the
\* cycles in which no fetch for the held instrument failed.
C5_EngineInvokedForHeld ==
    (/\ CycleOver
     /\ cyc[1].start # None
     /\ ~cyc[1].failed
     /\ cyc[1].ranked)
    => /\ cyc[1].engine
       /\ cyc[1].sell => position = None

\* C12: the session loop never stops on the drawdown guard while a position
\* is open: the guard halts new entries only, and the debit of a new
\* position's notional does not stop the session.
C12_NoStopWhileOpen == pc = "stopped" => position = None

---------------------------------------------------------------------------
(* The Potential Scorer: analyze_coin_potential.  Of the frame it reads the *)
(* length and four aggregates pandas computes from the bars: volatility,    *)
(* volume_trend, the mean 10-bar change of close (price_trend before abs),  *)
(* and the last RSI; each is a rational or NaN.                            *)

neutral_volatility == R(2, 100)

neutral_rsi == R(50, 1)

OrDefault(x, default) == IF x = NaN THEN default ELSE x

RClamp(lo, hi, x) == IF RLt(x, lo) THEN lo ELSE IF RLt(hi, x) THEN hi ELSE x

\* Lines 128-133.
profit_potential_of(f) ==
    LET volatility == OrDefault(f.volatility, neutral_volatility)
        volume_trend == OrDefault(f.volume_trend, Zero)
        price_trend == OrDefault(IF f.price_trend = NaN THEN NaN ELSE RAbs(f.price_trend),
                                 Zero)
        rsi == OrDefault(f.rsi, neutral_rsi)
    IN  RAdd(RAdd(RMul(volatility, R(1000, 1)), RMul(volume_trend, R(500, 1))),
             RAdd(RMul(price_trend, R(1000, 1)),
                  RMul(RSub(R(50, 1), RAbs(RSub(R(50, 1), rsi))), R(1, 2))))

\* Mutant of analyze_coin_potential: the length of the frame is not tested.
analyze_coin_potential_any_length(df) ==
    IF df = None THEN Zero
    ELSE RClamp(Zero, R(100, 1), profit_potential_of(df[1]))

analyze_coin_potential(df) ==
    IF df = None \/ df[1].n < MinBars THEN Zero
    ELSE RClamp(Zero, R(100, 1), profit_potential_of(df[1]))

---------------------------------------------------------------------------
(* SpecEvaluate: the Signal Engine and the Potential Scorer applied to     *)
(* missing, short and full frames, with and without a position.            *)

FrameLengths == {0, 1, ShortFrame, MinBars, 100}

FrameStats ==
    {[volatility |-> R(2, 100), volume_trend |-> R(1, 10), price_trend |-> R(-1, 100),
      rsi |-> R(50, 1)],
     [volatility |-> NaN, volume_trend |-> NaN, price_trend |-> NaN, rsi |-> NaN],
     [volatility |-> R(1, 10), volume_trend |-> R(1, 10), price_trend |-> R(1, 100),
      rsi |-> R(70, 1)],
     [volatility |-> Zero, volume_trend |-> R(-1, 10), price_trend |-> Zero,
      rsi |-> R(100, 1)]}

EvaluateFrames ==
    {None}
    \cup {<<[n |-> n, current |-> row, volatility |-> st.volatility,
             volume_trend |-> st.volume_trend, price_trend |-> st.price_trend,
             rsi |-> st.rsi]>> :
             n \in FrameLengths, row \in {BuyRow, SellRow, BareRow}, st \in FrameStats}

InitEvaluate ==
    /\ disk = "ok"
    /\ \E b \in StrategyBots :
         /\ results_file = b.results_file
         /\ at_save = b.at_save
         /\ balance = b.balance
         /\ position = b.position
         /\ trades = b.trades
         /\ total_trades = b.total_trades
         /\ winning_trades = b.winning_trades
    /\ last = NoCall
    /\ InitLoop
    /\ arg \in {[df |-> df, symbol |-> sym] : df \in EvaluateFrames, sym \in Symbols}
    /\ ret = <<>>

EvalSignal ==
    /\ ret = <<>>
    /\ ret' = <<[fn |-> "aggressive_profit_strategy",
                 value |-> aggressive_profit_strategy(arg.df, arg.symbol, position)]>>
    /\ last' = Called("aggressive_profit_strategy", "", 0, Zero, arg.symbol, Zero)
    /\ UNCHANGED <<acct, loop, arg, disk>>

EvalPotential ==
    /\ ret = <<>>
    /\ ret' = <<[fn |-> "analyze_coin_potential",
                 value |-> analyze_coin_potential(arg.df)]>>
    /\ last' = Called("analyze_coin_potential", "", 0, Zero, arg.symbol, Zero)
    /\ UNCHANGED <<acct, loop, arg, disk>>

NextEvaluate == EvalSignal \/ EvalPotential

SpecEvaluate == InitEvaluate /\ [][NextEvaluate]_vars

CannotEvaluate == arg.df = None \/ arg.df[1].n < 50

\* C11: on a frame of fewer than 50 bars and on a missing frame the Signal
\* Engine answers (HOLD, 0) and the Potential Scorer answers 0, and position,
\* balance, the trade log and the trade counters are what they were.
C11_CannotEvaluateIsNeutral ==
    (ret # <<>> /\ CannotEvaluate)
    => /\ IF ret[1].fn = "aggressive_profit_strategy"
          THEN ret[1].value = <<"HOLD", 0>>
          ELSE ret[1].value = Zero
       /\ Bot = Pre

\* A short frame whose last row meets all eight BUY criteria, scored.
C11_Witness ==
    /\ ret # <<>>
    /\ ret[1].fn = "analyze_coin_potential"
    /\ arg.df # None
    /\ arg.df[1].n = 49
    /\ arg.df[1].current = BuyRow
    /\ RLt(Zero, profit_potential_of(arg.df[1]))
    /\ position # None

C11_WitnessSignal ==
    /\ ret # <<>>
    /\ ret[1].fn = "aggressive_profit_strategy"
    /\ arg.df # None
    /\ arg.df[1].n = 49
    /\ arg.df[1].current = BuyRow

C11_WitnessNoData ==
    /\ ret # <<>>
    /\ arg.df = None

---------------------------------------------------------------------------
(* Claims about the scores, checked under SpecStrategy.                    *)

Row == arg.df[1].current

One(b) == IF b THEN 1 ELSE 0

\* The eight BUY criteria and the eight SELL criteria as the rulebook lists
\* them, on a row with every field present.
BuyCriteriaMet ==
    One(RLt(Row.MA_20, Row.MA_10) /\ RLt(Row.MA_50, Row.MA_20))
    + One(RLt(R(30, 1), Row.RSI_7) /\ RLt(Row.RSI_7, R(80, 1)))
    + One(RLt(Row.MACD_Signal, Row.MACD))
    + One(RLt(R(12, 10), Row.Volume_Ratio))
    + One(RLt(RMul(Row.BB_Upper, R(98, 100)), Row.close))
    + One(RLt(Row.Stoch_D, Row.Stoch_K) /\ RLt(Row.Stoch_K, R(80, 1)))
    + One(RLt(Zero, Row.Momentum))
    + One(RLt(R(-2, 100), Row.Price_Change))

SellCriteriaMet ==
    One(RLt(Row.MA_10, Row.MA_20))
    + One(RLt(R(75, 1), Row.RSI_14))
    + One(RLt(Row.MACD, Row.MACD_Signal))
    + One(RLt(Row.Volume_Ratio, R(8, 10)))
    + One(RLt(Row.close, Row.BB_Middle))
    + One(RLt(Row.Stoch_K, Row.Stoch_D))
    + One(RLt(Row.Momentum, Zero))
    + One(position # None
          /\ RLe(RMul(position[1].entry_price, R(108, 100)), Row.close))

InHighVolatilitySet == arg.symbol \in {"SOL/USDT", "AVAX/USDT", "ADA/USDT", "DOT/USDT"}

Bonus ==
    IF InHighVolatilitySet
    THEN 2 * One(RLt(R(15, 10), Row.Volume_Ratio))
         + One(RLt(R(5, 100), RAbs(Row.Price_Change)))
    ELSE 0

\* C14: buy_score is twice the number of BUY criteria met plus, for the
\* instruments of the high-volatility set only, 2 when Volume_Ratio > 1.5 and
\* 1 when |Price_Change| > 0.05; sell_score is the number of SELL criteria met,
\* the eighth counting only with a position open; all eight BUY criteria met
\* for an instrument outside the set give (BUY, 16).
C14_Scores ==
    (Evaluated /\ Row # BareRow)
    => /\ ArgBuy = 2 * BuyCriteriaMet + Bonus
       /\ ArgSell = SellCriteriaMet
       /\ ret[1][1] = "BUY" => ret[1][2] = 2 * BuyCriteriaMet + Bonus
       /\ ret[1][1] = "SELL" => ret[1][2] = SellCriteriaMet
       /\ (BuyCriteriaMet = 8 /\ ~InHighVolatilitySet) => ret[1] = <<"BUY", 16>>

\* The bonus at work: an instrument of the set with both bonus tests met.
C14_Witness ==
    /\ Evaluated /\ Row # BareRow
    /\ InHighVolatilitySet
    /\ Bonus = 3
    /\ ret[1] = <<"BUY", 2 * BuyCriteriaMet + 3>>

\* The same row for an instrument outside the set, all eight criteria met.
C14_WitnessSixteen ==
    /\ Evaluated /\ Row # BareRow
    /\ ~InHighVolatilitySet
    /\ BuyCriteriaMet = 8
    /\ RLt(R(15, 10), Row.Volume_Ratio)
    /\ ret[1] = <<"BUY", 16>>

\* The eighth SELL criterion counted.
C14_WitnessEighth ==
    /\ Evaluated /\ Row # BareRow
    /\ position # None
    /\ RLe(RMul(position[1].entry_price, R(108, 100)), Row.close)
    /\ ret[1][1] = "SELL"
    /\ ret[1][2] = 8

---------------------------------------------------------------------------
(* The Indicator Engine: calculate_indicators.  A frame is its length and,  *)
(* for each derived column, None while the column is not there, else the    *)
(* number of its rows that hold NaN.  The environment decides which of the  *)
(* computations raise.                                                     *)

DerivedFields ==
    {"MA_10", "MA_20", "MA_50", "MA_100", "RSI_14", "RSI_7", "MACD", "MACD_Signal",
     "BB_Upper", "BB_Lower", "BB_Middle", "Stoch_K", "Stoch_D", "Volume_MA",
     "Volume_Ratio", "Momentum", "Price_Change"}

\* The computations of lines 191-216, in order.
IndicatorSteps ==
    <<"MA_10", "MA_20", "MA_50", "MA_100", "RSI_14", "RSI_7", "MACD", "BB",
      "BB_Middle", "Stoch", "Volume_MA", "Volume_Ratio", "Momentum", "Price_Change">>

\* The computations made by a helper with its own try/except (242-307): on an
\* exception, and on too short a series, the helper returns a series of
\* defaults; otherwise it fills its NaN itself.
HelperSteps == {"RSI_14", "RSI_7", "MACD", "BB", "Stoch"}

StepColumns(step) ==
    IF step = "MACD" THEN {"MACD", "MACD_Signal"}
    ELSE IF step = "BB" THEN {"BB_Upper", "BB_Lower"}
    ELSE IF step = "Stoch" THEN {"Stoch_K", "Stoch_D"}
    ELSE {step}

\* rolling(w).mean(), shift(5) and pct_change(5) leave NaN in the first rows.
Warmup(step) ==
    IF step = "MA_10" THEN 9
    ELSE IF step = "MA_50" THEN 49
    ELSE IF step = "MA_100" THEN 99
    ELSE IF step \in {"Momentum", "Price_Change"} THEN 5
    ELSE 19

NanRows(step, n) == IF n < Warmup(step) THEN n ELSE Warmup(step)

RawFrame(n) == [n |-> n, cols |-> [c \in DerivedFields |-> None]]

Assign(frame, columns, nans) ==
    [frame EXCEPT !.cols = [c \in DerivedFields |-> IF c \in columns THEN <<nans>> ELSE @[c]]]

\* Lines 224-235: every column that is there gets its NaN filled.
FillDefaults(frame) ==
    [frame EXCEPT !.cols = [c \in DerivedFields |-> IF @[c] = None THEN None ELSE <<0>>]]

RECURSIVE IndicatorsFrom(_, _, _)
IndicatorsFrom(i, frame, fails) ==
    IF i > Len(IndicatorSteps) THEN FillDefaults(frame)
    ELSE LET step == IndicatorSteps[i]
         IN  IF step \in HelperSteps
             THEN IndicatorsFrom(i + 1, Assign(frame, StepColumns(step), 0), fails)
             ELSE IF step \in fails
             THEN frame                    \* except of line 238: return df
             ELSE IndicatorsFrom(i + 1,
                                 Assign(frame, StepColumns(step), NanRows(step, frame.n)),
                                 fails)

calculate_indicators(df, fails) ==
    IF df = None \/ df[1].n = 0 THEN df
    ELSE <<IndicatorsFrom(1, df[1], fails)>>

---------------------------------------------------------------------------
(* SpecIndicators: calculate_indicators on frames of several lengths, with  *)
(* no computation raising or with one of them raising.                     *)

BarCounts == {0, 1, 5, 19, 20, 49, 50, 100}

FailureSets == {{}} \cup {{IndicatorSteps[i]} : i \in 1..Len(IndicatorSteps)}

InitIndicators ==
    /\ disk = "ok"
    /\ results_file = None
    /\ at_save = None
    /\ balance = initial_balance
    /\ position = None
    /\ trades = <<>>
    /\ total_trades = 0
    /\ winning_trades = 0
    /\ last = NoCall
    /\ InitLoop
    /\ arg \in {[df |-> <<RawFrame(n)>>, fails |-> f] : n \in BarCounts, f \in FailureSets}
    /\ ret = <<>>

EvalIndicators ==
    /\ ret = <<>>
    /\ ret' = <<calculate_indicators(arg.df, arg.fails)>>
    /\ UNCHANGED <<acct, last, loop, arg, disk>>

SpecIndicators == InitIndicators /\ [][EvalIndicators]_vars

Computed == ret # <<>> /\ arg.df[1].n >= 1

\* C16: for every non-empty bar sequence calculate_indicators returns a frame
\* of the length of the input in which every derived field is defined on
\* every row, also when the computation of one indicator fails.
C16_FrameComplete ==
    Computed
    => /\ ret[1][1].n = arg.df[1].n
       /\ \A c \in DerivedFields : ret[1][1].cols[c] = <<0>>

---------------------------------------------------------------------------
(* SpecLedger: the Position Manager driven through several trades, one      *)
(* symbol and two prices.                                                  *)

MaxLedgerTrades == 3

LedgerPrices == {R(96, 1), R(108, 1)}

LedgerSignals == {<<"BUY", 9>>, <<"SELL", 4>>}

LedgerSymbol == "SOL/USDT"

LedgerPotential == R(100, 1)

LedgerExecuteTrade ==
    \E sig \in LedgerSignals, current_price \in LedgerPrices :
      /\ (sig[1] = "BUY" /\ position = None) => total_trades < MaxLedgerTrades
      /\ Commit(execute_trade(Bot, sig[1], sig[2], current_price, LedgerSymbol,
                              LedgerPotential))
      /\ last' = Called("execute_trade", sig[1], sig[2], current_price, LedgerSymbol,
                        LedgerPotential)
      /\ UNCHANGED <<loop, pure, disk>>

LedgerManageOpenPosition ==
    \E current_price \in LedgerPrices :
      /\ Commit(manage_open_position(Bot, current_price, LedgerSymbol))
      /\ last' = Called("manage_open_position", "", 0, current_price, LedgerSymbol, Zero)
      /\ UNCHANGED <<loop, pure, disk>>

LedgerForceClosePosition ==
    \E current_price \in LedgerPrices :
      /\ Commit(force_close_position(Bot, current_price, "Manual", LedgerSymbol))
      /\ last' = Called("force_close_position", "", 0, current_price, LedgerSymbol, Zero)
      /\ UNCHANGED <<loop, pure, disk>>

NextLedger ==
    \/ LedgerExecuteTrade
    \/ LedgerManageOpenPosition
    \/ LedgerForceClosePosition

InitLedger ==
    /\ disk \in DiskStates
    /\ results_file = None
    /\ at_save = None
    /\ balance = initial_balance
    /\ position = None
    /\ trades = <<>>
    /\ total_trades = 0
    /\ winning_trades = 0
    /\ last = NoCall
    /\ InitLoop
    /\ InitPure

SpecLedger == InitLedger /\ [][NextLedger]_vars

RECURSIVE SumProfitLoss(_)
SumProfitLoss(log) ==
    IF log = <<>> THEN Zero
    ELSE LET rest == SumProfitLoss(SubSeq(log, 1, Len(log) - 1))
             record == log[Len(log)]
         IN  IF record.type = "SELL" THEN RAdd(rest, record.profit_loss) ELSE rest

Notional == IF position = None THEN Zero
            ELSE RMul(position[1].size, position[1].entry_price)

C18_LogMirrorsStateMachine ==
    /\ Count("SELL") = total_trades
    /\ winning_trades <= total_trades
    /\ Count("BUY") - Count("SELL") = (IF position = None THEN 0 ELSE 1)
    /\ \A i \in 1..Len(trades) :
         trades[i].type = (IF i % 2 = 1 THEN "BUY" ELSE "SELL")
    /\ last.pre # None =>
         /\ Len(trades) <= Len(Pre.trades) + 1
         /\ SubSeq(trades, 1, Len(Pre.trades)) = Pre.trades
         /\ Opened => (Len(trades) = Len(Pre.trades) + 1 /\ LastTrade.type = "BUY")
         /\ Closed => (Len(trades) = Len(Pre.trades) + 1 /\ LastTrade.type = "SELL")
         /\ (IsOpen(Pre) <=> IsOpen(Bot)) => trades = Pre.trades

\* The third position closed by force: six records in the log.
C18_Witness ==
    /\ Len(trades) = 6
    /\ Made("force_close_position")
    /\ Closed
    /\ winning_trades < total_trades

---------------------------------------------------------------------------
(* Claims about persistence and observation points.                        *)

Appended == last.pre # None /\ Len(trades) > Len(Pre.trades)

\* C13: a failure of the persistence collaborator during save_trade_to_file
\* neither rolls back nor interrupts the transition in memory.  With the
\* collaborator failing, a call that appends a BUY record leaves the position
\* recorded and the balance debited; a call that appends a SELL record leaves
\* the balance credited, the counters updated and the position absent, so no
\* position is credited twice; nothing reaches the results file.
C13_SaveFailureKeepsTransition ==
    (disk = "failing" /\ Appended)
    => /\ Len(trades) = Len(Pre.trades) + 1
       /\ results_file = None
       /\ LastTrade.type = "BUY" =>
            /\ ~IsOpen(Pre) /\ IsOpen(Bot)
            /\ Pos(Bot).size = LastTrade.size
            /\ balance = RSub(Pre.balance, RMul(LastTrade.size, LastTrade.price))
       /\ LastTrade.type = "SELL" =>
            /\ IsOpen(Pre) /\ position = None
            /\ balance = RAdd(Pre.balance, RMul(Pos(Pre).size, LastTrade.price))
            /\ total_trades = Pre.total_trades + 1
            /\ Count("SELL") <= Count("BUY")

\* A SELL signal closes the position while the collaborator fails.
C13_Witness ==
    /\ disk = "failing"
    /\ Made("execute_trade") /\ last.signal = "SELL"
    /\ Closed
    /\ LastTrade.type = "SELL"
    /\ at_save # None

C13_WitnessForced ==
    /\ disk = "failing"
    /\ Made("manage_open_position")
    /\ Closed

C13_WitnessOpen ==
    /\ disk = "failing"
    /\ Opened

\* C15: wherever a trade record or snapshot is written the balance and the
\* position slot agree: when save_trade_to_file is entered for a BUY record
\* the position is recorded and its notional debited, and when it is entered
\* for a SELL record, with the balance credited, the position is absent.
C15_ConsistentAtSave ==
    at_save # None
    => /\ at_save[1].record.type = "BUY" => at_save[1].held
       /\ at_save[1].record.type = "SELL" => ~at_save[1].held

====
